---- MODULE Spec2Model ----
(***************************************************************************)
(* Authentication / authorization core of devops-mission-control.          *)
(*                                                                         *)
(* Two OS processes share the tokens document and the users document:      *)
(*   "dash" - the long-running dashboard host (httpTokenStore with the     *)
(*            change watcher and the sweeper started, httpUserStore);      *)
(*   "cli"  - a command-line invocation (tokenStore, userStore).           *)
(* Time is counted in units of 15 days, so the sweeper's 30-day retention  *)
(* window is 2 units.  genToken is modelled as a counter: every call       *)
(* returns a value no process has seen before.                             *)
(***************************************************************************)
EXTENDS Integers, FiniteSets, Sequences, TLC

\* ------------------------------------------------------------------ bounds
MaxTokens == 2
MaxTime == 3

\* ------------------------------------------------------- program constants
RetentionWindow == 2
LevelViewer == 10
LevelOperator == 20
LevelAdmin == 30

Procs == {"dash", "cli"}
Hosts == {"dash"}
TokIds == 1..MaxTokens
UserNames == {"alice", ""}
TokUsers == {"alice"}
TokenNames == {"ci"}
TTLs == {0, 1}
NoExpiry == 0 - 1
SaveOutcomes == {"ok", "createFail", "writeFail"}

ErrNone == "ok"
ErrNotFound == "token not found"
ErrRevoked == "token revoked"
ErrExpired == "token expired"
ErrIO == "io error"

VARIABLES
  tokens,      \* tokens[p]: TokenStore.tokens of process p
  file,        \* the tokens document on disk
  stale,       \* poll branch: the document's mtime is after the host's lastMod
  pendingEv,   \* fsnotify events queued for the watcher of a host
  watchMode,   \* watchFile's branch: "fsnotify" or "poll"
  now,         \* wall clock
  nextTok,     \* next value genToken returns
  users,       \* users[p]: UserStore.users of process p
  usersFile,   \* the users document on disk
  last,        \* the last call and what it returned
  bg,          \* the host's stopCh and the positions of its two goroutines
  lg,          \* lg[p]: mutex and call position in the earlier store revision
  dboard       \* the Dashboard object: isRunning, its Start and Stop calls

vars == <<tokens, file, stale, pendingEv, watchMode, now, nextTok,
          users, usersFile, last, bg, lg, dboard>>

EmptyMap == [k \in {} |-> 0]

\* "no token": what a call returns besides an error.
NoTok == [token |-> 0, user |-> "", name |-> "", createdAt |-> 0,
          expiresAt |-> NoExpiry, revoked |-> FALSE]

\* "no audit record": the call appended nothing to the audit file.
NoAudit == [action |-> "none", actor |-> "", allowed |-> FALSE]

Call(op, p, arg, res, tok) ==
  [op |-> op, p |-> p, arg |-> arg, res |-> res, tok |-> tok,
   actor |-> "", target |-> "", audit |-> NoAudit]
NoCall == Call("none", "cli", 0, ErrNone, NoTok)

\* A command or a request: the actor it resolved, its target and its result.
ACall(op, p, actor, target, res, tok) ==
  [op |-> op, p |-> p, arg |-> 0, res |-> res, tok |-> tok,
   actor |-> actor, target |-> target, audit |-> NoAudit]

\* ------------------------------------------------------------ TokenStore

\* After with its operands exchanged.
AfterSwapped(a, b) == b > a

\* time.Time.After / Before are strict comparisons.
After(a, b) == a > b
Before(a, b) == a < b

NewToken(tstr, user, name, ttl, t) ==
  [token |-> tstr, user |-> user, name |-> name, createdAt |-> t,
   expiresAt |-> IF ttl > 0 THEN t + ttl ELSE NoExpiry, revoked |-> FALSE]

\* json.Encoder.Encode(s.tokens): one object member per map key.
Encode(mem) == [st |-> "ok", toks |-> mem]

\* json.Decoder.Decode(&s.tokens) into the existing map: members of the
\* document replace the entries of the same key, other entries are kept.
\* A missing, empty or truncated document leaves the map as it was.
Decode(mem, f) ==
  IF f.st = "ok"
  THEN [k \in (DOMAIN mem) \cup (DOMAIN f.toks) |->
          IF k \in DOMAIN f.toks THEN f.toks[k] ELSE mem[k]]
  ELSE mem

\* TokenStore.load: returns early when os.Stat fails (no file).
LoadMem(mem, f) == IF f.st = "missing" THEN mem ELSE Decode(mem, f)
LoadStale(p, f) ==
  IF f.st = "missing" \/ p \notin Hosts THEN stale ELSE FALSE

\* TokenStore.save: the document after the call.
SaveFile(mem, f, outcome) ==
  CASE outcome = "ok" -> Encode(mem)
    [] outcome = "createFail" -> f
    [] OTHER -> [st |-> "corrupt", toks |-> EmptyMap]

SaveErr(outcome) == IF outcome = "ok" THEN ErrNone ELSE ErrIO

\* lastMod of the host against the document's mtime after a save by p;
\* only the poll branch of watchFile reads lastMod.
SaveStale(p, outcome) ==
  CASE watchMode # "poll" -> stale
    [] outcome = "createFail" -> stale
    [] outcome = "ok" /\ p \in Hosts -> FALSE
    [] OTHER -> TRUE

\* A write to the document queues fsnotify events for the watcher.
SaveEvents(outcome) ==
  IF outcome = "createFail" \/ watchMode # "fsnotify" THEN pendingEv ELSE TRUE

\* Validate with the operands of the expiry comparison exchanged.
ValidateCheckSwapped(mem, t, tm) ==
  IF t \notin DOMAIN mem THEN ErrNotFound
  ELSE IF mem[t].revoked THEN ErrRevoked
  ELSE IF mem[t].expiresAt # NoExpiry /\ After(mem[t].expiresAt, tm) THEN ErrExpired
  ELSE ErrNone

\* The checks of Validate on the record found.
ValidateCheck(mem, t, tm) ==
  IF t \notin DOMAIN mem THEN ErrNotFound
  ELSE IF mem[t].revoked THEN ErrRevoked
  ELSE IF mem[t].expiresAt # NoExpiry /\ After(tm, mem[t].expiresAt) THEN ErrExpired
  ELSE ErrNone

\* The map Validate looks the token up in: memory, reloaded on a miss.
ValidateMem(mem, f, t) == IF t \in DOMAIN mem THEN mem ELSE LoadMem(mem, f)

ValidateResult(p, t) == ValidateCheck(ValidateMem(tokens[p], file, t), t, now)

\* The token Validate returns with a nil error.
ValidateTok(p, t) ==
  IF ValidateResult(p, t) = ErrNone THEN ValidateMem(tokens[p], file, t)[t] ELSE NoTok

\* ------------------------------------------------------------- UserStore

Roles == {"viewer", "operator", "admin"}
\* The role argument of a command is any string; "root" stands for the
\* strings that name no role.
RoleInputs == Roles \cup {"root"}
Names == {"alice", "bob", ""}
CreateNames == {"alice", "bob"}
Passwords == {"pw"}

ErrUserExists == "user already exists"
ErrUserNotFound == "user not found"
ErrNoActor == "no actor provided; use --actor or --token"
ErrInvalidToken == "invalid token"
ErrActorLookup == "actor lookup failed"
ErrForbiddenAdmin == "forbidden: admin role required"
ErrForbiddenRole == "forbidden: insufficient role"

\* hashPassword: hex of the SHA-256 digest, a different string per password.
HashPassword(pw) == <<"sha256", pw>>

NewUser(username, pw, role, t) ==
  [username |-> username, passwordHash |-> HashPassword(pw), role |-> role,
   createdAt |-> t, active |-> TRUE]

\* UserStore.save / load: the users document is the JSON object of the map.
UEncode(us) == [st |-> "ok", users |-> us]

ULoadMem(us, f) ==
  IF f.st = "ok"
  THEN [k \in (DOMAIN us) \cup (DOMAIN f.users) |->
          IF k \in DOMAIN f.users THEN f.users[k] ELSE us[k]]
  ELSE us

NewUserStore(f) == ULoadMem(EmptyMap, f)
NewTokenStore(f) == LoadMem(EmptyMap, f)

AddUserErr(us, username) ==
  IF username \in DOMAIN us THEN ErrUserExists ELSE ErrNone

AddUserMem(us, username, pw, role, t) ==
  IF username \in DOMAIN us THEN us
  ELSE [k \in (DOMAIN us) \cup {username} |->
          IF k = username THEN NewUser(username, pw, role, t) ELSE us[k]]

GetUserErr(us, username) ==
  IF username \in DOMAIN us THEN ErrNone ELSE ErrUserNotFound

SetUserRoleMem(us, username, role) ==
  IF username \in DOMAIN us THEN [us EXCEPT ![username].role = role] ELSE us

DeleteUserMem(us, username) == [k \in (DOMAIN us) \ {username} |-> us[k]]

\* ------------------------------------------------- RBAC, command line layer

\* resolveActor: the --token flag (0: not given) before the --actor flag.
ResolveActor(ts, f, tokFlag, actorFlag) ==
  IF tokFlag # 0
  THEN IF ValidateCheck(ValidateMem(ts, f, tokFlag), tokFlag, now) # ErrNone
       THEN [err |-> ErrInvalidToken, actor |-> ""]
       ELSE [err |-> ErrNone, actor |-> ValidateMem(ts, f, tokFlag)[tokFlag].user]
  ELSE [err |-> ErrNone, actor |-> actorFlag]

\* requireAdmin that lets every role but viewer through.
RequireAdminNotViewer(us, ts, f, tokFlag, actorFlag) ==
  LET r == ResolveActor(ts, f, tokFlag, actorFlag)
  IN IF r.err # ErrNone THEN r.err
     ELSE IF r.actor = "" THEN ErrNoActor
     ELSE IF r.actor \notin DOMAIN us THEN ErrActorLookup
     ELSE IF us[r.actor].role = "viewer" THEN ErrForbiddenAdmin
     ELSE ErrNone

RequireAdmin(us, ts, f, tokFlag, actorFlag) ==
  LET r == ResolveActor(ts, f, tokFlag, actorFlag)
  IN IF r.err # ErrNone THEN r.err
     ELSE IF r.actor = "" THEN ErrNoActor
     ELSE IF r.actor \notin DOMAIN us THEN ErrActorLookup
     ELSE IF us[r.actor].role # "admin" THEN ErrForbiddenAdmin
     ELSE ErrNone

\* requireAdminOrSelf without the test for an empty actor.
RequireAdminOrSelfNoEmptyTest(us, ts, f, tokFlag, actorFlag, target) ==
  LET r == ResolveActor(ts, f, tokFlag, actorFlag)
  IN IF r.err # ErrNone THEN r.err
     ELSE IF r.actor = target THEN ErrNone
     ELSE RequireAdmin(us, ts, f, tokFlag, actorFlag)

RequireAdminOrSelf(us, ts, f, tokFlag, actorFlag, target) ==
  LET r == ResolveActor(ts, f, tokFlag, actorFlag)
  IN IF r.err # ErrNone THEN r.err
     ELSE IF r.actor = "" THEN ErrNoActor
     ELSE IF r.actor = target THEN ErrNone
     ELSE RequireAdmin(us, ts, f, tokFlag, actorFlag)

\* cliRoleLevel: a role that is not a key of the map has level 0.
CliRoleLevel(role) ==
  CASE role = "viewer" -> LevelViewer
    [] role = "operator" -> LevelOperator
    [] role = "admin" -> LevelAdmin
    [] OTHER -> 0

\* requireMinRole with the comparison off by one.
RequireMinRoleStrict(us, ts, f, tokFlag, actorFlag, min) ==
  LET r == ResolveActor(ts, f, tokFlag, actorFlag)
  IN IF r.err # ErrNone THEN r.err
     ELSE IF r.actor = "" THEN ErrNoActor
     ELSE IF r.actor \notin DOMAIN us THEN ErrActorLookup
     ELSE IF CliRoleLevel(us[r.actor].role) <= CliRoleLevel(min) THEN ErrForbiddenRole
     ELSE ErrNone

RequireMinRole(us, ts, f, tokFlag, actorFlag, min) ==
  LET r == ResolveActor(ts, f, tokFlag, actorFlag)
  IN IF r.err # ErrNone THEN r.err
     ELSE IF r.actor = "" THEN ErrNoActor
     ELSE IF r.actor \notin DOMAIN us THEN ErrActorLookup
     ELSE IF CliRoleLevel(us[r.actor].role) < CliRoleLevel(min) THEN ErrForbiddenRole
     ELSE ErrNone

\* --------------------------------------------------------- RBAC, HTTP layer

StatusOK == 200
StatusUnauthorized == 401
StatusForbidden == 403

\* roleLevel of the dashboard package.
HttpRoleLevel(role) ==
  CASE role = "viewer" -> LevelViewer
    [] role = "operator" -> LevelOperator
    [] role = "admin" -> LevelAdmin
    [] OTHER -> 0

\* authMiddleware that answers a failed role check like a failed validation.
AuthMiddlewareAlways401(us, ts, f, bearer, xActor, minRole) ==
  LET mem == ValidateMem(ts, f, bearer)
      bad == bearer # 0 /\ ValidateCheck(mem, bearer, now) # ErrNone
      a0 == IF bearer # 0 /\ ~bad THEN mem[bearer].user ELSE ""
      actor == IF a0 = "" THEN xActor ELSE a0
  IN IF bad THEN [status |-> StatusUnauthorized, actor |-> "", why |-> "invalid token"]
     ELSE IF actor = "" THEN [status |-> StatusUnauthorized, actor |-> "", why |-> "no actor"]
     ELSE IF actor \notin DOMAIN us
       THEN [status |-> StatusUnauthorized, actor |-> actor, why |-> "actor not found"]
     ELSE IF HttpRoleLevel(us[actor].role) < HttpRoleLevel(minRole)
       THEN [status |-> StatusUnauthorized, actor |-> actor, why |-> "forbidden"]
     ELSE [status |-> StatusOK, actor |-> actor, why |-> "allowed"]

\* authMiddleware: bearer is the token of "Authorization: Bearer <token>"
\* (0: no such header, another scheme, or an empty token), xActor the
\* X-Actor header.  status 200 means the wrapped handler ran.
AuthMiddleware(us, ts, f, bearer, xActor, minRole) ==
  LET mem == ValidateMem(ts, f, bearer)
      bad == bearer # 0 /\ ValidateCheck(mem, bearer, now) # ErrNone
      a0 == IF bearer # 0 /\ ~bad THEN mem[bearer].user ELSE ""
      actor == IF a0 = "" THEN xActor ELSE a0
  IN IF bad THEN [status |-> StatusUnauthorized, actor |-> "", why |-> "invalid token"]
     ELSE IF actor = "" THEN [status |-> StatusUnauthorized, actor |-> "", why |-> "no actor"]
     ELSE IF actor \notin DOMAIN us
       THEN [status |-> StatusUnauthorized, actor |-> actor, why |-> "actor not found"]
     ELSE IF HttpRoleLevel(us[actor].role) < HttpRoleLevel(minRole)
       THEN [status |-> StatusForbidden, actor |-> actor, why |-> "forbidden"]
     ELSE [status |-> StatusOK, actor |-> actor, why |-> "allowed"]

\* The "auth.check" record authMiddleware appends before it answers.
AuthAudit(d) ==
  [action |-> "auth.check", actor |-> d.actor, allowed |-> d.status = StatusOK]

\* StartWatcher has not been called: stopCh is nil (0), no goroutine runs.
\* A goroutine is at "none", "loop" (about to enter its select), "select"
\* (blocked in the select, sel the stop channel the select evaluated),
\* "work" (took an event or a tick, about to reload or sweep) or "done".
NoBackground ==
  [stopCh |-> 0, closed |-> FALSE,
   w |-> [pc |-> "none", sel |-> 0], s |-> [pc |-> "none", sel |-> 0]]

\* NewDashboard: isRunning is false; no Start call ("none") and no Stop call
\* ("none") is in progress.
NewDashboard == [isRunning |-> FALSE, start |-> "none", stop |-> "none"]

\* The earlier revision's sync.RWMutex is free and no call is in progress.
Unlocked == [mu |-> "free", umu |-> "free", pc |-> "idle", op |-> "none"]

Init ==
  /\ tokens = [p \in Procs |-> EmptyMap]
  /\ file = [st |-> "missing", toks |-> EmptyMap]
  /\ stale = FALSE
  /\ pendingEv = FALSE
  /\ watchMode \in {"fsnotify", "poll"}
  /\ now = 0
  /\ nextTok = 1
  /\ users = [p \in Procs |-> EmptyMap]
  /\ usersFile = [st |-> "missing", users |-> EmptyMap]
  /\ last = NoCall
  /\ bg = NoBackground
  /\ lg = [p \in Procs |-> Unlocked]
  /\ dboard = NewDashboard

GenerateToken(p, user, name, ttl, outcome) ==
  /\ nextTok <= MaxTokens
  /\ LET tok == NewToken(nextTok, user, name, ttl, now)
         mem == [k \in (DOMAIN tokens[p]) \cup {nextTok} |->
                   IF k = nextTok THEN tok ELSE tokens[p][k]]
     IN /\ tokens' = [tokens EXCEPT ![p] = mem]
        /\ file' = SaveFile(mem, file, outcome)
        /\ stale' = SaveStale(p, outcome)
        /\ pendingEv' = SaveEvents(outcome)
        /\ last' = Call("generate", p, 0, SaveErr(outcome),
                        IF outcome = "ok" THEN tok ELSE NoTok)
  /\ nextTok' = nextTok + 1
  /\ UNCHANGED <<dboard, bg, lg, users, usersFile, watchMode, now>>

Validate(p, t) ==
  /\ tokens' = [tokens EXCEPT ![p] = ValidateMem(tokens[p], file, t)]
  /\ stale' = IF t \in DOMAIN tokens[p] THEN stale ELSE LoadStale(p, file)
  /\ last' = Call("validate", p, t, ValidateResult(p, t), ValidateTok(p, t))
  /\ UNCHANGED <<dboard, bg, lg, users, usersFile, file, pendingEv, watchMode, now, nextTok>>

\* Revoke that evicts the entry instead of flagging it.
RevokeMemEvict(mem, t) == [k \in (DOMAIN mem) \ {t} |-> mem[k]]

\* The token map Revoke leaves in memory, and the error it returns.
RevokeMem(mem, t) ==
  IF t \in DOMAIN mem THEN [mem EXCEPT ![t].revoked = TRUE] ELSE mem

RevokeErr(mem, t, outcome) ==
  IF t \notin DOMAIN mem THEN ErrNotFound ELSE SaveErr(outcome)

Revoke(p, t, outcome) ==
  IF t \notin DOMAIN tokens[p]
  THEN /\ last' = Call("revoke", p, t, RevokeErr(tokens[p], t, outcome), NoTok)
       /\ UNCHANGED <<dboard, bg, lg, users, usersFile, tokens, file, stale, pendingEv, watchMode, now, nextTok>>
  ELSE LET mem == RevokeMem(tokens[p], t)
       IN /\ tokens' = [tokens EXCEPT ![p] = mem]
          /\ file' = SaveFile(mem, file, outcome)
          /\ stale' = SaveStale(p, outcome)
          /\ pendingEv' = SaveEvents(outcome)
          /\ last' = Call("revoke", p, t, RevokeErr(tokens[p], t, outcome), NoTok)
          /\ UNCHANGED <<dboard, bg, lg, users, usersFile, watchMode, now, nextTok>>

\* Rotate that stores the new token and forgets to revoke the old one.
RotateMemNoRevoke(mem, old, tstr, ttl, t) ==
  [k \in (DOMAIN mem) \cup {tstr} |->
     IF k = tstr THEN NewToken(tstr, mem[old].user, mem[old].name, ttl, t)
     ELSE mem[k]]

\* The token map Rotate leaves in memory.
RotateMem(mem, old, tstr, ttl, t) ==
  [k \in (DOMAIN mem) \cup {tstr} |->
     IF k = tstr THEN NewToken(tstr, mem[old].user, mem[old].name, ttl, t)
     ELSE IF k = old THEN [mem[old] EXCEPT !.revoked = TRUE]
     ELSE mem[k]]

\* Rotate that saves the revocation before the new token is in the map.
RotateDocEarlySave(mem, old, tstr, ttl, t, f, outcome) ==
  SaveFile([mem EXCEPT ![old].revoked = TRUE], f, outcome)

\* The document after Rotate's single save of the rotated map.
RotateDoc(mem, old, tstr, ttl, t, f, outcome) ==
  SaveFile(RotateMem(mem, old, tstr, ttl, t), f, outcome)

\* Rotate that does not test the revoked flag of the old token.
RotateCheckNoRevokedTest(mem, old) ==
  IF old \notin DOMAIN mem THEN ErrNotFound
  ELSE ErrNone

\* The checks Rotate makes on the old token before it mints a new one.
RotateCheck(mem, old) ==
  IF old \notin DOMAIN mem THEN ErrNotFound
  ELSE IF mem[old].revoked THEN ErrRevoked
  ELSE ErrNone

Rotate(p, old, ttl, outcome) ==
  IF RotateCheck(tokens[p], old) # ErrNone
  THEN /\ last' = Call("rotate", p, old, RotateCheck(tokens[p], old), NoTok)
       /\ UNCHANGED <<dboard, bg, lg, users, usersFile, tokens, file, stale, pendingEv, watchMode, now, nextTok>>
  ELSE /\ nextTok <= MaxTokens
       /\ LET mem == RotateMem(tokens[p], old, nextTok, ttl, now)
          IN /\ tokens' = [tokens EXCEPT ![p] = mem]
             /\ file' = RotateDoc(tokens[p], old, nextTok, ttl, now, file, outcome)
             /\ stale' = SaveStale(p, outcome)
             /\ pendingEv' = SaveEvents(outcome)
             /\ last' = Call("rotate", p, old, SaveErr(outcome),
                             IF outcome = "ok" THEN mem[nextTok] ELSE NoTok)
       /\ nextTok' = nextTok + 1
       /\ UNCHANGED <<dboard, bg, lg, users, usersFile, watchMode, now>>

\* watchFile, fsnotify branch: an event for the tokens document reloads.
\* One write can queue several events, so the queue may stay non-empty.
WatchEvent(p, more) ==
  /\ p \in Hosts
  /\ watchMode = "fsnotify"
  /\ pendingEv
  /\ tokens' = [tokens EXCEPT ![p] = LoadMem(tokens[p], file)]
  /\ pendingEv' = more
  /\ last' = Call("reload", p, 0, ErrNone, NoTok)
  /\ UNCHANGED <<dboard, bg, lg, users, usersFile, file, stale, watchMode, now, nextTok>>

\* watchFile, polling branch: reload when the mtime is after lastMod.
PollTick(p) ==
  /\ p \in Hosts
  /\ watchMode = "poll"
  /\ file.st # "missing"
  /\ stale
  /\ tokens' = [tokens EXCEPT ![p] = LoadMem(tokens[p], file)]
  /\ stale' = FALSE
  /\ last' = Call("reload", p, 0, ErrNone, NoTok)
  /\ UNCHANGED <<dboard, bg, lg, users, usersFile, file, pendingEv, watchMode, now, nextTok>>

\* One record of the sweeper's scan: "drop" deletes the entry.
SweepOne(t, tm) ==
  IF t.revoked THEN t
  ELSE LET r == IF t.expiresAt # NoExpiry /\ After(tm, t.expiresAt)
                THEN [t EXCEPT !.revoked = TRUE] ELSE t
       IN IF r.revoked /\ Before(r.createdAt + RetentionWindow, tm)
          THEN [r EXCEPT !.token = 0] ELSE r

SweepMem(mem, tm) ==
  LET keep == {k \in DOMAIN mem : SweepOne(mem[k], tm).token # 0}
  IN [k \in keep |-> SweepOne(mem[k], tm)]

\* One tick of the sweeper; the error of its save is dropped.
SweepTick(p, outcome) ==
  /\ p \in Hosts
  /\ LET mem == SweepMem(tokens[p], now)
         changed == mem # tokens[p]
         o == IF changed THEN outcome ELSE "createFail"
     IN /\ tokens' = [tokens EXCEPT ![p] = mem]
        /\ file' = SaveFile(mem, file, o)
        /\ stale' = SaveStale(p, o)
        /\ pendingEv' = SaveEvents(o)
        /\ (changed \/ outcome = "ok")
  /\ last' = Call("sweep", p, 0, ErrNone, NoTok)
  /\ UNCHANGED <<dboard, bg, lg, users, usersFile, watchMode, now, nextTok>>

\* A new process: NewTokenStore makes an empty map and loads the document.
\* The host also starts its watcher (StartWatcher) afresh.
Restart(p) ==
  /\ tokens' = [tokens EXCEPT ![p] = LoadMem(EmptyMap, file)]
  /\ stale' = LoadStale(p, file)
  /\ pendingEv' = IF p \in Hosts THEN FALSE ELSE pendingEv
  /\ last' = Call("restart", p, 0, ErrNone, NoTok)
  /\ UNCHANGED <<dboard, bg, lg, users, usersFile, file, watchMode, now, nextTok>>

Tick ==
  /\ now < MaxTime
  /\ now' = now + 1
  /\ last' = NoCall
  /\ UNCHANGED <<dboard, bg, lg, users, usersFile, tokens, file, stale, pendingEv, watchMode, nextTok>>

\* ------------------------------------------------------------- commands
\* Every command runs in a process of its own: the package-level userStore
\* and tokenStore are loaded from the documents when the process starts.

TokFlags == {0} \cup TokIds

\* The credentials of a command or request: <<token, claimed name>>, with
\* 0 for no token and "" for no claimed name.
Creds ==
  {<<0, a>> : a \in Names} \cup {<<t, a>> : t \in TokIds, a \in {"", "alice"}}

\* The credentials the commands are run with: a claimed name or a token.
CliCreds == {<<0, a>> : a \in Names} \cup {<<t, "">> : t \in TokIds}

\* A command that only checks requireMinRole before it runs an external
\* tool: terraform version (viewer), init (operator), apply (admin).
CliGuarded(tokFlag, actorFlag, min) ==
  LET us == NewUserStore(usersFile)
      ts == NewTokenStore(file)
      r == ResolveActor(ts, file, tokFlag, actorFlag)
  IN /\ last' = ACall("guarded", "cli", r.actor, min,
                      RequireMinRole(us, ts, file, tokFlag, actorFlag, min), NoTok)
     /\ UNCHANGED <<dboard, bg, lg, tokens, file, stale, pendingEv, watchMode, now, nextTok,
                    users, usersFile>>

\* user create <username> <password> <role>
CliUserCreate(tokFlag, actorFlag, username, pw, role) ==
  LET us == NewUserStore(usersFile)
      ts == NewTokenStore(file)
      r == ResolveActor(ts, file, tokFlag, actorFlag)
      authz == RequireAdminOrSelf(us, ts, file, tokFlag, actorFlag, username)
      err == IF authz # ErrNone THEN authz ELSE AddUserErr(us, username)
  IN /\ usersFile' = IF err = ErrNone
                     THEN UEncode(AddUserMem(us, username, pw, role, now))
                     ELSE usersFile
     /\ last' = ACall("user.create", "cli", r.actor, username, err, NoTok)
     /\ UNCHANGED <<dboard, bg, lg, tokens, file, stale, pendingEv, watchMode, now, nextTok, users>>

\* user set-role <username> <role>
CliUserSetRole(tokFlag, actorFlag, username, role) ==
  LET us == NewUserStore(usersFile)
      ts == NewTokenStore(file)
      r == ResolveActor(ts, file, tokFlag, actorFlag)
      authz == RequireAdmin(us, ts, file, tokFlag, actorFlag)
      err == IF authz # ErrNone THEN authz ELSE GetUserErr(us, username)
  IN /\ usersFile' = IF err = ErrNone
                     THEN UEncode(SetUserRoleMem(us, username, role))
                     ELSE usersFile
     /\ last' = ACall("user.set-role", "cli", r.actor, username, err, NoTok)
     /\ UNCHANGED <<dboard, bg, lg, tokens, file, stale, pendingEv, watchMode, now, nextTok, users>>

\* user delete <username>
CliUserDelete(tokFlag, actorFlag, username) ==
  LET us == NewUserStore(usersFile)
      ts == NewTokenStore(file)
      r == ResolveActor(ts, file, tokFlag, actorFlag)
      authz == RequireAdmin(us, ts, file, tokFlag, actorFlag)
      err == IF authz # ErrNone THEN authz ELSE GetUserErr(us, username)
  IN /\ usersFile' = IF err = ErrNone
                     THEN UEncode(DeleteUserMem(us, username))
                     ELSE usersFile
     /\ last' = ACall("user.delete", "cli", r.actor, username, err, NoTok)
     /\ UNCHANGED <<dboard, bg, lg, tokens, file, stale, pendingEv, watchMode, now, nextTok, users>>

\* token create <username> <name> [--ttl]
CliTokenCreate(tokFlag, actorFlag, username, name, ttl) ==
  LET us == NewUserStore(usersFile)
      ts == NewTokenStore(file)
      r == ResolveActor(ts, file, tokFlag, actorFlag)
      err == IF GetUserErr(us, username) # ErrNone THEN ErrUserNotFound
             ELSE RequireAdminOrSelf(us, ts, file, tokFlag, actorFlag, username)
      tok == NewToken(nextTok, username, name, ttl, now)
      mem == [k \in (DOMAIN ts) \cup {nextTok} |-> IF k = nextTok THEN tok ELSE ts[k]]
  IN /\ err = ErrNone => nextTok <= MaxTokens
     /\ file' = IF err = ErrNone THEN SaveFile(mem, file, "ok") ELSE file
     /\ stale' = IF err = ErrNone THEN SaveStale("cli", "ok") ELSE stale
     /\ pendingEv' = IF err = ErrNone THEN SaveEvents("ok") ELSE pendingEv
     /\ nextTok' = IF err = ErrNone THEN nextTok + 1 ELSE nextTok
     /\ last' = ACall("token.create", "cli", r.actor, username, err, NoTok)
     /\ UNCHANGED <<dboard, bg, lg, tokens, watchMode, now, users, usersFile>>

\* token revoke <token>
CliTokenRevoke(tokFlag, actorFlag, t) ==
  LET us == NewUserStore(usersFile)
      ts == NewTokenStore(file)
      r == ResolveActor(ts, file, tokFlag, actorFlag)
      v == ValidateCheck(ValidateMem(ts, file, t), t, now)
      owner == IF v = ErrNone THEN ts[t].user ELSE ""
      err == IF v # ErrNone THEN v
             ELSE RequireAdminOrSelf(us, ts, file, tokFlag, actorFlag, owner)
  IN /\ file' = IF err = ErrNone THEN SaveFile(RevokeMem(ts, t), file, "ok") ELSE file
     /\ stale' = IF err = ErrNone THEN SaveStale("cli", "ok") ELSE stale
     /\ pendingEv' = IF err = ErrNone THEN SaveEvents("ok") ELSE pendingEv
     /\ last' = ACall("token.revoke", "cli", r.actor, owner, err, NoTok)
     /\ UNCHANGED <<dboard, bg, lg, tokens, watchMode, now, nextTok, users, usersFile>>

\* token rotate <token> [--ttl]
CliTokenRotate(tokFlag, actorFlag, t, ttl) ==
  LET us == NewUserStore(usersFile)
      ts == NewTokenStore(file)
      r == ResolveActor(ts, file, tokFlag, actorFlag)
      v == ValidateCheck(ValidateMem(ts, file, t), t, now)
      owner == IF v = ErrNone THEN ts[t].user ELSE ""
      err == IF v # ErrNone THEN v
             ELSE RequireAdminOrSelf(us, ts, file, tokFlag, actorFlag, owner)
  IN /\ err = ErrNone => nextTok <= MaxTokens
     /\ file' = IF err = ErrNone
                THEN RotateDoc(ts, t, nextTok, ttl, now, file, "ok") ELSE file
     /\ stale' = IF err = ErrNone THEN SaveStale("cli", "ok") ELSE stale
     /\ pendingEv' = IF err = ErrNone THEN SaveEvents("ok") ELSE pendingEv
     /\ nextTok' = IF err = ErrNone THEN nextTok + 1 ELSE nextTok
     /\ last' = ACall("token.rotate", "cli", r.actor, owner, err, NoTok)
     /\ UNCHANGED <<dboard, bg, lg, tokens, watchMode, now, users, usersFile>>

\* A request to a dashboard route wrapped in authMiddleware(minRole, h).
HttpRequest(bearer, xActor, minRole) ==
  LET d == AuthMiddleware(users["dash"], tokens["dash"], file, bearer, xActor, minRole)
  IN /\ tokens' = [tokens EXCEPT !["dash"] = ValidateMem(tokens["dash"], file, bearer)]
     /\ stale' = IF bearer = 0 \/ bearer \in DOMAIN tokens["dash"] THEN stale
                 ELSE LoadStale("dash", file)
     /\ last' = [ACall("http", "dash", d.actor, d.why, d.status, NoTok)
                   EXCEPT !.audit = AuthAudit(d)]
     /\ UNCHANGED <<dboard, bg, lg, file, pendingEv, watchMode, now, nextTok, users, usersFile>>

\* The dashboard process starts: httpUserStore and httpTokenStore are loaded
\* from the documents and the watcher is started.
DashStart ==
  /\ tokens' = [tokens EXCEPT !["dash"] = NewTokenStore(file)]
  /\ users' = [users EXCEPT !["dash"] = NewUserStore(usersFile)]
  /\ stale' = LoadStale("dash", file)
  /\ pendingEv' = FALSE
  /\ last' = ACall("dash.start", "dash", "", "", ErrNone, NoTok)
  /\ UNCHANGED <<dboard, bg, lg, file, watchMode, now, nextTok, usersFile>>

\* One token store over time: the dashboard host with its watcher and its
\* sweeper, and the clock; every save succeeds.  The host is the only writer
\* and every save sets lastMod, so the polling branch never sees a newer
\* mtime and its tick changes nothing.
Next ==
  \/ \E p \in Hosts, u \in TokUsers, n \in TokenNames, ttl \in TTLs :
       GenerateToken(p, u, n, ttl, "ok")
  \/ \E p \in Hosts, t \in TokIds : Validate(p, t)
  \/ \E p \in Hosts, t \in TokIds : Revoke(p, t, "ok")
  \/ \E p \in Hosts, t \in TokIds, ttl \in TTLs : Rotate(p, t, ttl, "ok")
  \/ \E p \in Hosts, more \in BOOLEAN : WatchEvent(p, more)
  \/ \E p \in Hosts : SweepTick(p, "ok")
  \/ \E p \in Hosts : Restart(p)
  \/ Tick

Spec == Init /\ [][Next]_vars

\* One token store whose saves can fail (os.Create fails, or the write
\* fails or the process dies after the truncation); the clock stands still.
NextFail ==
  \/ \E p \in Hosts, u \in TokUsers, n \in TokenNames, ttl \in TTLs, o \in SaveOutcomes :
       GenerateToken(p, u, n, ttl, o)
  \/ \E p \in Hosts, t \in TokIds : Validate(p, t)
  \/ \E p \in Hosts, t \in TokIds, o \in SaveOutcomes : Revoke(p, t, o)
  \/ \E p \in Hosts, t \in TokIds, ttl \in TTLs, o \in SaveOutcomes : Rotate(p, t, ttl, o)
  \/ \E p \in Hosts, more \in BOOLEAN : WatchEvent(p, more)
  \/ \E p \in Hosts : PollTick(p)
  \/ \E p \in Hosts : Restart(p)

SpecFail == Init /\ [][NextFail]_vars

\* Two processes on the same tokens document; every save succeeds and no
\* token carries an expiry.
NextShared ==
  \/ \E p \in Procs, u \in TokUsers, n \in TokenNames :
       GenerateToken(p, u, n, 0, "ok")
  \/ \E p \in Procs, t \in TokIds : Validate(p, t)
  \/ \E p \in Procs, t \in TokIds : Revoke(p, t, "ok")
  \/ \E p \in Procs, t \in TokIds : Rotate(p, t, 0, "ok")
  \/ \E p \in Hosts, more \in BOOLEAN : WatchEvent(p, more)
  \/ \E p \in Hosts : PollTick(p)
  \/ \E p \in Procs : Restart(p)

SpecShared == Init /\ [][NextShared]_vars

\* The commands, each in a process of its own, over the two documents;
\* every save succeeds and the clock stands still.
NextAuthz ==
  \/ \E c \in CliCreds, u \in CreateNames, pw \in Passwords, r \in RoleInputs :
       CliUserCreate(c[1], c[2], u, pw, r)
  \/ \E c \in CliCreds, u \in CreateNames, r \in RoleInputs :
       CliUserSetRole(c[1], c[2], u, r)
  \/ \E c \in CliCreds, u \in CreateNames : CliUserDelete(c[1], c[2], u)
  \/ \E c \in CliCreds, u \in TokUsers, n \in TokenNames :
       CliTokenCreate(c[1], c[2], u, n, 0)
  \/ \E c \in CliCreds, t \in TokIds : CliTokenRevoke(c[1], c[2], t)
  \/ \E c \in CliCreds, t \in TokIds : CliTokenRotate(c[1], c[2], t, 0)

\* No dashboard is running: the watcher's mode plays no part.
InitAuthz == Init /\ watchMode = "poll"

SpecAuthz == InitAuthz /\ [][NextAuthz]_vars

\* The documents the authorisation checks are applied to: any users document
\* and any tokens document the store operations can write.
UserMaps ==
  UNION {[d -> {NewUser("alice", "pw", r, 0) : r \in Roles}] : d \in SUBSET CreateNames}
TokenMaps ==
  UNION {[d -> {[NewToken(1, o, "ci", 0, 0) EXCEPT !.revoked = rv] :
                  o \in UserNames, rv \in BOOLEAN}] : d \in SUBSET TokIds}

\* The user record and the token record stored under a key carry that key.
Keyed(m, field) == [k \in DOMAIN m |-> [m[k] EXCEPT ![field] = k]]

\* A dashboard that has just started over such documents.
InitRbac ==
  \E um \in UserMaps, tm \in TokenMaps :
    /\ usersFile = UEncode(Keyed(um, "username"))
    /\ file = Encode(Keyed(tm, "token"))
    /\ users = [p \in Procs |-> IF p \in Hosts THEN NewUserStore(usersFile) ELSE EmptyMap]
    /\ tokens = [p \in Procs |-> IF p \in Hosts THEN NewTokenStore(file) ELSE EmptyMap]
    /\ stale = FALSE
    /\ pendingEv = FALSE
    /\ watchMode = "fsnotify"
    /\ now = 0
    /\ nextTok = MaxTokens + 1
    /\ last = NoCall
    /\ bg = NoBackground
    /\ lg = [p \in Procs |-> Unlocked]
    /\ dboard = NewDashboard

\* The two layers' checks applied to the same documents.
NextRbac ==
  \/ \E c \in Creds, m \in Roles : HttpRequest(c[1], c[2], m)
  \/ \E c \in Creds, m \in Roles : CliGuarded(c[1], c[2], m)
  \/ DashStart

SpecRbac == InitRbac /\ [][NextRbac]_vars

\* A running dashboard and the user commands: httpUserStore is loaded when
\* the dashboard process starts; every command loads, changes and saves the
\* users document in a process of its own.
NextUsers ==
  \/ \E a \in Names, u \in CreateNames, pw \in Passwords, r \in RoleInputs :
       CliUserCreate(0, a, u, pw, r)
  \/ \E a \in Names, u \in CreateNames, r \in RoleInputs : CliUserSetRole(0, a, u, r)
  \/ \E a \in Names, u \in CreateNames : CliUserDelete(0, a, u)
  \/ \E a \in Names, m \in Roles : HttpRequest(0, a, m)
  \/ DashStart

\* The dashboard keeps answering requests.
SpecUsers ==
  /\ InitAuthz
  /\ [][NextUsers]_vars
  /\ WF_vars(\E a \in Names, m \in Roles : HttpRequest(0, a, m))

\* ----------------------------------------- StartWatcher and StopWatcher
\* The two goroutines of the host's token store, step by step.

\* StartWatcher: returns when stopCh is set; else makes the channel and
\* starts watchFile and sweeper.  One generation of goroutines is followed.
StartWatcher ==
  /\ bg.stopCh = 0 /\ ~bg.closed
  /\ bg' = [bg EXCEPT !.stopCh = 1, !.w.pc = "loop", !.s.pc = "loop"]
  /\ last' = Call("bg.start", "dash", 0, ErrNone, NoTok)
  /\ UNCHANGED <<dboard, lg, tokens, file, stale, pendingEv, watchMode, now, nextTok,
                 users, usersFile>>

\* StopWatcher: close(s.stopCh); s.stopCh = nil.
StopWatcher ==
  /\ bg.stopCh # 0
  /\ bg' = [bg EXCEPT !.stopCh = 0, !.closed = TRUE]
  /\ last' = Call("bg.stop", "dash", 0, ErrNone, NoTok)
  /\ UNCHANGED <<dboard, lg, tokens, file, stale, pendingEv, watchMode, now, nextTok,
                 users, usersFile>>

\* What a goroutine can read from the field s.stopCh, which StopWatcher
\* writes with no synchronisation: the field, or the channel it held before.
ReadStopCh == {bg.stopCh} \cup (IF bg.closed THEN {1} ELSE {})

\* A select statement evaluates its channel operands once, on entry.
WatcherSelect(ch) ==
  /\ bg.w.pc = "loop"
  /\ ch \in ReadStopCh
  /\ bg' = [bg EXCEPT !.w = [pc |-> "select", sel |-> ch]]
  /\ last' = Call("bg.select", "dash", 0, ErrNone, NoTok)
  /\ UNCHANGED <<dboard, lg, tokens, file, stale, pendingEv, watchMode, now, nextTok,
                 users, usersFile>>

\* The select takes an fsnotify event for the document, or the poll tick.
WatcherTake(more) ==
  /\ bg.w.pc = "select"
  /\ watchMode = "fsnotify" => pendingEv
  /\ pendingEv' = IF watchMode = "fsnotify" THEN more ELSE pendingEv
  /\ bg' = [bg EXCEPT !.w.pc = "work"]
  /\ last' = Call("bg.take", "dash", 0, ErrNone, NoTok)
  /\ UNCHANGED <<dboard, lg, tokens, file, stale, watchMode, now, nextTok, users, usersFile>>

\* The reload of the event, or of the tick when the mtime is after lastMod.
WatcherReload ==
  /\ bg.w.pc = "work"
  /\ LET doLoad == watchMode = "fsnotify" \/ (file.st # "missing" /\ stale)
     IN /\ tokens' = [tokens EXCEPT !["dash"] =
                        IF doLoad THEN LoadMem(tokens["dash"], file) ELSE tokens["dash"]]
        /\ stale' = IF doLoad THEN LoadStale("dash", file) ELSE stale
  /\ bg' = [bg EXCEPT !.w.pc = "loop"]
  /\ last' = Call("reload", "dash", 0, ErrNone, NoTok)
  /\ UNCHANGED <<dboard, lg, file, pendingEv, watchMode, now, nextTok, users, usersFile>>

\* The select takes the stop case: a receive from a closed channel is ready,
\* a receive from a nil channel never is.
WatcherExit ==
  /\ bg.w.pc = "select" /\ bg.w.sel # 0 /\ bg.closed
  /\ bg' = [bg EXCEPT !.w.pc = "done"]
  /\ last' = Call("bg.exit", "dash", 0, ErrNone, NoTok)
  /\ UNCHANGED <<dboard, lg, tokens, file, stale, pendingEv, watchMode, now, nextTok,
                 users, usersFile>>

SweeperSelect(ch) ==
  /\ bg.s.pc = "loop"
  /\ ch \in ReadStopCh
  /\ bg' = [bg EXCEPT !.s = [pc |-> "select", sel |-> ch]]
  /\ last' = Call("bg.select", "sweeper", 0, ErrNone, NoTok)
  /\ UNCHANGED <<dboard, lg, tokens, file, stale, pendingEv, watchMode, now, nextTok,
                 users, usersFile>>

\* The select takes the sweeper's tick.
SweeperTake ==
  /\ bg.s.pc = "select"
  /\ bg' = [bg EXCEPT !.s.pc = "work"]
  /\ last' = Call("bg.take", "sweeper", 0, ErrNone, NoTok)
  /\ UNCHANGED <<dboard, lg, tokens, file, stale, pendingEv, watchMode, now, nextTok,
                 users, usersFile>>

\* The scan of the tick, saved when it changed the map.
SweeperSweep ==
  /\ bg.s.pc = "work"
  /\ LET mem == SweepMem(tokens["dash"], now)
         o == IF mem # tokens["dash"] THEN "ok" ELSE "createFail"
     IN /\ tokens' = [tokens EXCEPT !["dash"] = mem]
        /\ file' = SaveFile(mem, file, o)
        /\ stale' = SaveStale("dash", o)
        /\ pendingEv' = SaveEvents(o)
  /\ bg' = [bg EXCEPT !.s.pc = "loop"]
  /\ last' = Call("sweep", "dash", 0, ErrNone, NoTok)
  /\ UNCHANGED <<dboard, lg, watchMode, now, nextTok, users, usersFile>>

SweeperExit ==
  /\ bg.s.pc = "select" /\ bg.s.sel # 0 /\ bg.closed
  /\ bg' = [bg EXCEPT !.s.pc = "done"]
  /\ last' = Call("bg.exit", "sweeper", 0, ErrNone, NoTok)
  /\ UNCHANGED <<dboard, lg, tokens, file, stale, pendingEv, watchMode, now, nextTok,
                 users, usersFile>>

WatcherStep ==
  \/ \E ch \in {0, 1} : WatcherSelect(ch)
  \/ \E more \in BOOLEAN : WatcherTake(more)
  \/ WatcherReload

SweeperStep ==
  \/ \E ch \in {0, 1} : SweeperSelect(ch)
  \/ SweeperTake
  \/ SweeperSweep

\* The host: its callers issue and revoke tokens, and StartWatcher and
\* StopWatcher are called while the goroutines run; the clock stands still.
NextStop ==
  \/ \E u \in TokUsers, n \in TokenNames : GenerateToken("dash", u, n, 0, "ok")
  \/ \E t \in TokIds : Revoke("dash", t, "ok")
  \/ StartWatcher
  \/ StopWatcher
  \/ WatcherStep
  \/ WatcherExit
  \/ SweeperStep
  \/ SweeperExit

\* Every runnable goroutine is scheduled and both tickers keep firing; a
\* select with several ready cases picks each of them sooner or later.
SpecStop ==
  /\ Init
  /\ [][NextStop]_vars
  /\ WF_vars(WatcherStep) /\ WF_vars(SweeperStep)
  /\ SF_vars(WatcherExit) /\ SF_vars(SweeperExit)

\* ------------------------------------------- the earlier store revision
\* src/pkg/auth/token_store.go: one caller per process; lg[p].mu is the
\* token store's sync.RWMutex and lg[p].umu the user store's, "W" while the
\* caller holds the write lock; lg[p].pc is where the call in progress is.

\* GenerateToken: the insert under Lock/Unlock, then persistList.
LgGenerateToken(p, user, name) ==
  /\ lg[p].pc = "idle" /\ lg[p].mu = "free"
  /\ nextTok <= MaxTokens
  /\ tokens' = [tokens EXCEPT ![p] =
                  [k \in (DOMAIN tokens[p]) \cup {nextTok} |->
                     IF k = nextTok THEN NewToken(nextTok, user, name, 0, now)
                     ELSE tokens[p][k]]]
  /\ nextTok' = nextTok + 1
  /\ lg' = [lg EXCEPT ![p].pc = "persist", ![p].op = "generate"]
  /\ last' = Call("lg.generate", p, nextTok, ErrNone, NoTok)
  /\ UNCHANGED <<dboard, bg, file, stale, pendingEv, watchMode, now, users, usersFile>>

\* Revoke: Lock (deferred Unlock), evict the entry, then persistList with
\* the write lock still held; nil at once when the token is not in the map.
LgRevoke(p, t) ==
  /\ lg[p].pc = "idle" /\ lg[p].mu = "free"
  /\ IF t \in DOMAIN tokens[p]
     THEN /\ tokens' = [tokens EXCEPT ![p] = [k \in (DOMAIN tokens[p]) \ {t} |-> tokens[p][k]]]
          /\ lg' = [lg EXCEPT ![p].mu = "W", ![p].pc = "persist", ![p].op = "revoke"]
     ELSE UNCHANGED <<tokens, lg>>
  /\ last' = Call("lg.revoke", p, t, ErrNone, NoTok)
  /\ UNCHANGED <<dboard, bg, file, stale, pendingEv, watchMode, now, nextTok, users, usersFile>>

\* Rotate: Lock (deferred Unlock), insert the new token, evict the old one,
\* then persistList with the write lock still held.
LgRotate(p, old) ==
  /\ lg[p].pc = "idle" /\ lg[p].mu = "free"
  /\ IF old \in DOMAIN tokens[p]
     THEN /\ nextTok <= MaxTokens
          /\ tokens' = [tokens EXCEPT ![p] =
                          [k \in ((DOMAIN tokens[p]) \ {old}) \cup {nextTok} |->
                             IF k = nextTok
                             THEN NewToken(nextTok, tokens[p][old].user,
                                           tokens[p][old].name, 0, now)
                             ELSE tokens[p][k]]]
          /\ nextTok' = nextTok + 1
          /\ lg' = [lg EXCEPT ![p].mu = "W", ![p].pc = "persist", ![p].op = "rotate"]
          /\ last' = Call("lg.rotate", p, old, ErrNone, NoTok)
     ELSE /\ last' = Call("lg.rotate", p, old, ErrNotFound, NoTok)
          /\ UNCHANGED <<tokens, lg, nextTok>>
  /\ UNCHANGED <<dboard, bg, file, stale, pendingEv, watchMode, now, users, usersFile>>

\* UserStore.AddUser: Lock (deferred Unlock); nil when the user exists; else
\* the insert and save with the write lock still held.
LgAddUser(p, username, pw, role) ==
  /\ lg[p].pc = "idle" /\ lg[p].umu = "free"
  /\ IF username \in DOMAIN users[p]
     THEN UNCHANGED <<users, lg>>
     ELSE /\ users' = [users EXCEPT ![p] = AddUserMem(users[p], username, pw, role, now)]
          /\ lg' = [lg EXCEPT ![p].umu = "W", ![p].pc = "usave", ![p].op = "adduser"]
  /\ last' = ACall("lg.adduser", p, "", username, ErrNone, NoTok)
  /\ UNCHANGED <<dboard, bg, tokens, file, stale, pendingEv, watchMode, now, nextTok, usersFile>>

\* persistList / save: RLock to copy the map, RUnlock, write the document.
\* RLock waits while the write lock is held, by whomever.
LgPersist(p) ==
  /\ \/ lg[p].pc = "persist" /\ lg[p].mu = "free"
     \/ lg[p].pc = "usave" /\ lg[p].umu = "free"
  /\ file' = IF lg[p].pc = "persist" THEN Encode(tokens[p]) ELSE file
  /\ usersFile' = IF lg[p].pc = "usave" THEN UEncode(users[p]) ELSE usersFile
  /\ lg' = [lg EXCEPT ![p].pc = "idle"]
  /\ last' = Call("lg.persist", p, 0, ErrNone, NoTok)
  /\ UNCHANGED <<dboard, bg, tokens, stale, pendingEv, watchMode, now, nextTok, users>>

\* Validate: RLock; "token not found" for a missing or revoked token.
LgValidateCheck(mem, t, tm) ==
  IF t \notin DOMAIN mem \/ mem[t].revoked THEN ErrNotFound
  ELSE IF mem[t].expiresAt # NoExpiry /\ After(tm, mem[t].expiresAt) THEN ErrExpired
  ELSE ErrNone

LgValidate(p, t) ==
  /\ lg[p].pc = "idle" /\ lg[p].mu = "free"
  /\ last' = Call("lg.validate", p, t, LgValidateCheck(tokens[p], t, now), NoTok)
  /\ UNCHANGED <<dboard, bg, lg, tokens, file, stale, pendingEv, watchMode, now, nextTok,
                 users, usersFile>>

\* load, from the watcher's ticker: Lock, then every record of the document
\* is assigned into the map.
LgLoad(p) ==
  /\ lg[p].mu = "free"
  /\ file.st = "ok"
  /\ tokens' = [tokens EXCEPT ![p] = Decode(tokens[p], file)]
  /\ last' = Call("lg.load", p, 0, ErrNone, NoTok)
  /\ UNCHANGED <<dboard, bg, lg, file, stale, pendingEv, watchMode, now, nextTok, users, usersFile>>

NextLegacy ==
  \/ \E p \in Procs, u \in TokUsers, n \in TokenNames : LgGenerateToken(p, u, n)
  \/ \E p \in Procs, t \in TokIds : LgRevoke(p, t)
  \/ \E p \in Procs, t \in TokIds : LgRotate(p, t)
  \/ \E p \in Procs, u \in TokUsers, pw \in Passwords, r \in Roles : LgAddUser(p, u, pw, r)
  \/ \E p \in Procs : LgPersist(p)
  \/ \E p \in Procs, t \in TokIds : LgValidate(p, t)
  \/ \E p \in Hosts : LgLoad(p)

\* NewUserStore and NewTokenStore of this revision load the documents: each
\* process starts with the users of a users document written before.
InitLegacy ==
  \E um \in UserMaps :
    /\ usersFile = UEncode(Keyed(um, "username"))
    /\ users = [p \in Procs |-> NewUserStore(usersFile)]
    /\ tokens = [p \in Procs |-> EmptyMap]
    /\ file = [st |-> "missing", toks |-> EmptyMap]
    /\ stale = FALSE
    /\ pendingEv = FALSE
    /\ watchMode = "poll"
    /\ now = 0
    /\ nextTok = 1
    /\ last = NoCall
    /\ bg = NoBackground
    /\ lg = [p \in Procs |-> Unlocked]
    /\ dboard = NewDashboard

SpecLegacy == InitLegacy /\ [][NextLegacy]_vars

\* ------------------------------------------------ UserStore, in process
\* The calls of one UserStore object that lives as long as its process.

AuthPasswords == {"pw", "bad"}

ErrInvalidUser == "invalid user or inactive"
ErrInvalidPassword == "invalid password"

\* Authenticate that does not look at the active flag.
AuthenticateErrNoActive(us, username, pw) ==
  IF username \notin DOMAIN us THEN ErrInvalidUser
  ELSE IF us[username].passwordHash # HashPassword(pw) THEN ErrInvalidPassword
  ELSE ErrNone

AuthenticateErr(us, username, pw) ==
  IF username \notin DOMAIN us \/ ~us[username].active THEN ErrInvalidUser
  ELSE IF us[username].passwordHash # HashPassword(pw) THEN ErrInvalidPassword
  ELSE ErrNone

Authenticate(p, username, pw) ==
  /\ last' = ACall("authenticate", p, "", username,
                   AuthenticateErr(users[p], username, pw), NoTok)
  /\ UNCHANGED <<dboard, bg, lg, tokens, file, stale, pendingEv, watchMode, now, nextTok,
                 users, usersFile>>

\* UserStore.save: the users document after the call.
USaveFile(us, f, outcome) ==
  CASE outcome = "ok" -> UEncode(us)
    [] outcome = "createFail" -> f
    [] OTHER -> [st |-> "corrupt", users |-> EmptyMap]

SetUserActiveMem(us, username, active) ==
  IF username \in DOMAIN us THEN [us EXCEPT ![username].active = active] ELSE us

\* A mutator of the UserStore: the check, the change of the map, the save.
UserMutation(op, p, username, err, mem, outcome) ==
  IF err # ErrNone
  THEN /\ last' = ACall(op, p, "", username, err, NoTok)
       /\ UNCHANGED <<dboard, bg, lg, tokens, file, stale, pendingEv, watchMode, now, nextTok,
                      users, usersFile>>
  ELSE /\ users' = [users EXCEPT ![p] = mem]
       /\ usersFile' = USaveFile(mem, usersFile, outcome)
       /\ last' = ACall(op, p, "", username, SaveErr(outcome), NoTok)
       /\ UNCHANGED <<dboard, bg, lg, tokens, file, stale, pendingEv, watchMode, now, nextTok>>

AddUser(p, username, pw, role, outcome) ==
  UserMutation("adduser", p, username, AddUserErr(users[p], username),
               AddUserMem(users[p], username, pw, role, now), outcome)

SetUserActive(p, username, active, outcome) ==
  UserMutation("setactive", p, username, GetUserErr(users[p], username),
               SetUserActiveMem(users[p], username, active), outcome)

SetUserRole(p, username, role, outcome) ==
  UserMutation("setrole", p, username, GetUserErr(users[p], username),
               SetUserRoleMem(users[p], username, role), outcome)

DeleteUser(p, username, outcome) ==
  UserMutation("deleteuser", p, username, GetUserErr(users[p], username),
               DeleteUserMem(users[p], username), outcome)

\* One process holding both stores: the users and their tokens, the checks
\* of both layers; every save succeeds and the clock stands still.
NextStore ==
  \/ \E u \in CreateNames, pw \in Passwords, r \in Roles : AddUser("dash", u, pw, r, "ok")
  \/ \E u \in CreateNames, b \in BOOLEAN : SetUserActive("dash", u, b, "ok")
  \/ \E u \in CreateNames, r \in Roles : SetUserRole("dash", u, r, "ok")
  \/ \E u \in CreateNames : DeleteUser("dash", u, "ok")
  \/ \E u \in Names, pw \in AuthPasswords : Authenticate("dash", u, pw)
  \/ \E u \in TokUsers, n \in TokenNames : GenerateToken("dash", u, n, 0, "ok")
  \/ \E t \in TokIds : Validate("dash", t)
  \/ \E c \in Creds, m \in Roles : HttpRequest(c[1], c[2], m)
  \/ \E c \in Creds, m \in Roles : CliGuarded(c[1], c[2], m)

SpecStore == InitAuthz /\ [][NextStore]_vars

\* -------------------------------------------------------------- Dashboard
\* Dashboard.Start and Dashboard.Stop of one Dashboard object.  The Start
\* call is at "none" (never called), "starting" (isRunning set, before
\* net.Listen), "serving" (in its select) or "returned"; the Stop call is at
\* "none" or "sending" (d.mu held, in the send on the unbuffered stopChan).

ErrAlreadyRunning == "dashboard already running"
ErrBind == "bind error"
ErrServe == "server error"

\* Start up to net.Listen: the isRunning test under d.mu, and on the first
\* call in the process the token store and its watcher.
DashboardStart ==
  /\ dboard.start \in {"none", "returned"}
  /\ dboard.stop # "sending"
  /\ IF dboard.isRunning
     THEN /\ last' = Call("dashboard.start", "dash", 0, ErrAlreadyRunning, NoTok)
          /\ UNCHANGED <<dboard, bg, tokens, stale, pendingEv>>
     ELSE /\ dboard' = [dboard EXCEPT !.isRunning = TRUE, !.start = "starting"]
          /\ last' = Call("dashboard.begin", "dash", 0, ErrNone, NoTok)
          /\ IF dboard.start = "none"
             THEN /\ tokens' = [tokens EXCEPT !["dash"] = NewTokenStore(file)]
                  /\ stale' = LoadStale("dash", file)
                  /\ pendingEv' = FALSE
                  /\ bg' = [bg EXCEPT !.stopCh = 1, !.w.pc = "loop", !.s.pc = "loop"]
             ELSE UNCHANGED <<bg, tokens, stale, pendingEv>>
  /\ UNCHANGED <<lg, file, watchMode, now, nextTok, users, usersFile>>

\* net.Listen: on an error Start returns it; else it serves and selects.
DashboardListen(ok) ==
  /\ dboard.start = "starting"
  /\ dboard' = [dboard EXCEPT !.start = IF ok THEN "serving" ELSE "returned"]
  /\ last' = IF ok THEN Call("dashboard.serving", "dash", 0, ErrNone, NoTok)
             ELSE Call("dashboard.start", "dash", 0, ErrBind, NoTok)
  /\ UNCHANGED <<bg, lg, tokens, file, stale, pendingEv, watchMode, now, nextTok,
                 users, usersFile>>

\* server.Serve returns an error on errCh: Start returns it.
DashboardServeFails ==
  /\ dboard.start = "serving"
  /\ dboard' = [dboard EXCEPT !.start = "returned"]
  /\ last' = Call("dashboard.start", "dash", 0, ErrServe, NoTok)
  /\ UNCHANGED <<bg, lg, tokens, file, stale, pendingEv, watchMode, now, nextTok,
                 users, usersFile>>

\* Stop: under d.mu, the send on stopChan when isRunning is set.
DashboardStop ==
  /\ dboard.stop = "none"
  /\ IF dboard.isRunning
     THEN /\ dboard' = [dboard EXCEPT !.stop = "sending"]
          /\ last' = Call("dashboard.stop.begin", "dash", 0, ErrNone, NoTok)
     ELSE /\ last' = Call("dashboard.stop", "dash", 0, ErrNone, NoTok)
          /\ UNCHANGED dboard
  /\ UNCHANGED <<bg, lg, tokens, file, stale, pendingEv, watchMode, now, nextTok,
                 users, usersFile>>

\* The select of Start receives from stopChan: Stop unlocks and returns,
\* Start closes the server, clears isRunning and returns nil.
DashboardStopReceived ==
  /\ dboard.stop = "sending"
  /\ dboard.start = "serving"
  /\ dboard' = [isRunning |-> FALSE, start |-> "returned", stop |-> "none"]
  /\ last' = Call("dashboard.stop", "dash", 0, ErrNone, NoTok)
  /\ UNCHANGED <<bg, lg, tokens, file, stale, pendingEv, watchMode, now, nextTok,
                 users, usersFile>>

\* A request reaches a route only while the server is serving.
DashboardRequest(bearer, xActor, minRole) ==
  /\ dboard.start = "serving"
  /\ HttpRequest(bearer, xActor, minRole)

\* The dashboard's lifecycle, its requests, and the commands that write the
\* two documents meanwhile.
NextDashboard ==
  \/ DashboardStart
  \/ \E ok \in BOOLEAN : DashboardListen(ok)
  \/ DashboardServeFails
  \/ DashboardStop
  \/ DashboardStopReceived
  \/ \E c \in Creds, m \in Roles : DashboardRequest(c[1], c[2], m)
  \/ \E a \in Names, u \in CreateNames, pw \in Passwords, r \in Roles :
       CliUserCreate(0, a, u, pw, r)
  \/ \E a \in Names, u \in TokUsers, n \in TokenNames : CliTokenCreate(0, a, u, n, 0)

SpecDashboard == InitAuthz /\ [][NextDashboard]_vars

\* ----------------------------------------------------------------- claims

DocHas(f, t) == f.st = "ok" /\ t \in DOMAIN f.toks
DocRevoked(f, t) == DocHas(f, t) /\ f.toks[t].revoked
DocUnrevoked(f, t) == DocHas(f, t) /\ ~f.toks[t].revoked
MemRevoked(mem, t) == t \in DOMAIN mem /\ mem[t].revoked

\* C1: revocation is one-way: a token that is revoked in the tokens document
\* is not unrevoked in the document after any step, and a token that is
\* revoked in a running process's map is not accepted by that process's
\* Validate after any step.
C1_RevocationMonotonic ==
  [][\A t \in TokIds :
       /\ DocRevoked(file, t) => ~DocUnrevoked(file', t)
       /\ \A p \in Procs :
            (MemRevoked(tokens[p], t) /\ last'.op # "restart")
              => ValidateCheck(ValidateMem(tokens'[p], file', t), t, now') # ErrNone]_vars

\* C2: right after GenerateToken returns a token, Validate of its value in
\* the same process succeeds and returns that same token record.
C2_ValidateAfterGenerate ==
  (last.op = "generate" /\ last.res = ErrNone)
    => /\ ValidateResult(last.p, last.tok.token) = ErrNone
       /\ ValidateTok(last.p, last.tok.token) = last.tok

C2_Witness ==
  /\ last.op = "generate" /\ last.res = ErrNone
  /\ last.tok.expiresAt # NoExpiry
  /\ ValidateTok(last.p, last.tok.token).user = "alice"

\* C3: right after a successful Rotate(old, ttl), Validate(old) fails with
\* "token revoked" and Validate of the new token succeeds.
C3_RotateThenValidate ==
  (last.op = "rotate" /\ last.res = ErrNone)
    => /\ ValidateResult(last.p, last.arg) = ErrRevoked
       /\ ValidateResult(last.p, last.tok.token) = ErrNone

C3_Witness ==
  /\ last.op = "rotate" /\ last.res = ErrNone
  /\ last.tok.token # last.arg
  /\ last.tok.expiresAt # NoExpiry
  /\ MemRevoked(tokens[last.p], last.arg)

\* C4: after Revoke of an existing token, Validate fails with "token
\* revoked"; a second Revoke does not fail with "token not found", returns
\* no error when its save succeeds, and leaves the token revoked.
C4_RevokeThenValidateAndRevoke ==
  (last.op = "revoke" /\ last.res # ErrNotFound)
    => /\ ValidateResult(last.p, last.arg) = ErrRevoked
       /\ \A o \in SaveOutcomes :
            RevokeErr(tokens[last.p], last.arg, o) = SaveErr(o)
       /\ MemRevoked(RevokeMem(tokens[last.p], last.arg), last.arg)

C4_Witness ==
  /\ last.op = "revoke" /\ last.res = ErrNone
  /\ DocRevoked(file, last.arg)
  /\ MemRevoked(tokens[last.p], last.arg)

\* C5: whatever the outcome of Rotate's save, the tokens document after a
\* Rotate that passed its checks never shows the old and the new token both
\* unrevoked, nor the old token revoked with the new token missing.
C5_RotateAtomicOnDisk ==
  [][(last'.op = "rotate" /\ last'.res \in {ErrNone, ErrIO})
       => /\ ~(DocUnrevoked(file', last'.arg) /\ DocUnrevoked(file', nextTok))
          /\ ~(DocRevoked(file', last'.arg) /\ ~DocHas(file', nextTok))
          /\ file' \in {file, [st |-> "corrupt", toks |-> EmptyMap],
                         Encode(tokens'[last'.p])}]_vars

C5_Witness ==
  /\ last.op = "rotate" /\ last.res = ErrIO
  /\ DocUnrevoked(file, last.arg)
  /\ MemRevoked(tokens[last.p], last.arg)

C5_WitnessSaved ==
  /\ last.op = "rotate" /\ last.res = ErrNone
  /\ DocRevoked(file, last.arg) /\ DocUnrevoked(file, last.tok.token)

\* C6: Validate of a token present in the store succeeds iff it is not
\* revoked and it has no expiry or now < expiresAt.
C6_ValidIffUnrevokedAndBeforeExpiry ==
  \A p \in Procs : \A t \in DOMAIN tokens[p] :
    (ValidateResult(p, t) = ErrNone)
      <=> (~tokens[p][t].revoked
           /\ (tokens[p][t].expiresAt = NoExpiry \/ now < tokens[p][t].expiresAt))

\* The order viewer < operator < admin, as pairs (role, minimum) that pass.
AtLeast(role, min) ==
  <<role, min>> \in {<<"viewer", "viewer">>, <<"operator", "viewer">>,
                     <<"operator", "operator">>, <<"admin", "viewer">>,
                     <<"admin", "operator">>, <<"admin", "admin">>}

\* The records and the actor a command run with credentials c works with.
CliUsers == NewUserStore(usersFile)
CliTokens == NewTokenStore(file)
CliActor(c) == ResolveActor(CliTokens, file, c[1], c[2])

\* C7: for every actor that has a user record and every minimum role, the
\* command line's requireMinRole allows iff the record's role is at least the
\* minimum in viewer < operator < admin, the dashboard's authMiddleware
\* lets the request through iff the same holds, and so the two agree.
C7_MinRoleBothLayers ==
  \A c \in Creds, m \in Roles :
    LET a == CliActor(c).actor
        cli == RequireMinRole(CliUsers, CliTokens, file, c[1], c[2], m)
        http == AuthMiddleware(users["dash"], tokens["dash"], file, c[1], c[2], m)
    IN (CliActor(c).err = ErrNone /\ a # "" /\ a \in DOMAIN CliUsers)
         => /\ (cli = ErrNone) <=> AtLeast(CliUsers[a].role, m)
            /\ (http.status = StatusOK) <=> AtLeast(CliUsers[a].role, m)
            /\ (cli = ErrNone) <=> (http.status = StatusOK)
            /\ cli \in {ErrNone, ErrForbiddenRole}
            /\ http.status \in {StatusOK, StatusForbidden}

C7_Witness ==
  /\ last.op = "http" /\ last.res = StatusOK /\ last.actor = "alice"
  /\ "alice" \in DOMAIN CliUsers /\ CliUsers["alice"].role = "operator"
  /\ RequireMinRole(CliUsers, CliTokens, file, 0, "alice", "operator") = ErrNone
  /\ RequireMinRole(CliUsers, CliTokens, file, 0, "alice", "admin") = ErrForbiddenRole
  /\ AuthMiddleware(users["dash"], tokens["dash"], file, 0, "alice", "admin").status
       = StatusForbidden

\* C8: when a token is presented, the outcome is the same whatever username
\* is claimed beside it: resolveActor of the command line yields the token's
\* user when the token validates and fails when it does not, and the status
\* authMiddleware of the dashboard answers with does not depend on X-Actor.
C8_TokenPrecedence ==
  \A t \in TokIds, a1 \in Names, a2 \in Names, m \in Roles :
    /\ ResolveActor(CliTokens, file, t, a1) = ResolveActor(CliTokens, file, t, a2)
    /\ ResolveActor(CliTokens, file, t, a1) =
         IF ValidateCheck(ValidateMem(CliTokens, file, t), t, now) = ErrNone
         THEN [err |-> ErrNone, actor |-> CliTokens[t].user]
         ELSE [err |-> ErrInvalidToken, actor |-> ""]
    /\ AuthMiddleware(users["dash"], tokens["dash"], file, t, a1, m).status
         = AuthMiddleware(users["dash"], tokens["dash"], file, t, a2, m).status

\* The usernames whose record in a users document has role admin.
Admins(f) == {u \in DOMAIN NewUserStore(f) : NewUserStore(f)[u].role = "admin"}

\* C9: a user create, token create, token rotate or token revoke command
\* whose actor has no user record or a role below admin adds no user record
\* with role admin to the users document.
C9_SelfServiceNoAdmin ==
  [][(/\ last'.op \in {"user.create", "token.create", "token.rotate", "token.revoke"}
      /\ last'.actor \notin Admins(usersFile))
       => Admins(usersFile') \subseteq Admins(usersFile)]_vars

\* C10: requireAdminOrSelf allows iff an actor is resolved and it is the
\* target or its user record has role admin; an actor other than the target
\* that is a viewer, an operator or has no record is denied.
C10_AdminOrSelf ==
  \A c \in CliCreds, target \in Names :
    LET a == CliActor(c).actor
        res == RequireAdminOrSelf(CliUsers, CliTokens, file, c[1], c[2], target)
    IN /\ (res = ErrNone) <=>
            /\ CliActor(c).err = ErrNone
            /\ a # ""
            /\ (a = target \/ a \in Admins(usersFile))
       /\ (a # target /\ (a \notin DOMAIN CliUsers
                           \/ CliUsers[a].role \in {"viewer", "operator"}))
            => res # ErrNone

C10_Witness ==
  /\ last.op = "token.revoke" /\ last.res = ErrNone
  /\ last.actor = "bob" /\ last.target = "alice"
  /\ "bob" \in Admins(usersFile)
  /\ "alice" \in DOMAIN CliUsers /\ CliUsers["alice"].role = "operator"
  /\ RequireAdminOrSelf(CliUsers, CliTokens, file, 0, "alice", "bob") = ErrForbiddenAdmin
  /\ RequireAdminOrSelf(CliUsers, CliTokens, file, 0, "alice", "alice") = ErrNone

\* C11: with no token and no claimed username, requireMinRole (for every
\* minimum role), requireAdmin and requireAdminOrSelf (for every target)
\* return an error, and authMiddleware answers 401 without running the
\* wrapped handler.
C11_NoActorIsRejected ==
  /\ \A m \in Roles :
       /\ RequireMinRole(CliUsers, CliTokens, file, 0, "", m) = ErrNoActor
       /\ AuthMiddleware(users["dash"], tokens["dash"], file, 0, "", m).status
            = StatusUnauthorized
  /\ RequireAdmin(CliUsers, CliTokens, file, 0, "") = ErrNoActor
  /\ \A target \in Names :
       RequireAdminOrSelf(CliUsers, CliTokens, file, 0, "", target) = ErrNoActor

C11_Witness ==
  /\ last.op = "http" /\ last.res = StatusUnauthorized /\ last.target = "no actor"
  /\ Admins(usersFile) # {}
  /\ \E t \in DOMAIN CliTokens : ~CliTokens[t].revoked

\* C12: every token that is unrevoked and past its expiry when a sweep runs
\* is in the store with revoked = TRUE after that sweep.
C12_SweepRevokesExpired ==
  [][\A p \in Hosts : \A t \in DOMAIN tokens[p] :
       (/\ last'.op = "sweep" /\ last'.p = p
        /\ ~tokens[p][t].revoked
        /\ tokens[p][t].expiresAt # NoExpiry
        /\ tokens[p][t].expiresAt < now)
         => MemRevoked(tokens'[p], t)]_vars

\* C13: every token that is already revoked and was created more than the
\* retention window before a sweep runs is absent from the store (and so
\* from ListTokens) after that sweep.
C13_SweepPrunesOldRevoked ==
  [][\A p \in Hosts : \A t \in DOMAIN tokens[p] :
       (/\ last'.op = "sweep" /\ last'.p = p
        /\ tokens[p][t].revoked
        /\ tokens[p][t].createdAt + RetentionWindow < now)
         => t \notin DOMAIN tokens'[p]]_vars

\* C14: after process "cli" has issued and persisted a token that the
\* running process "dash" lacks, whatever "dash" does next (short of a
\* restart), its Validate of that token then succeeds.
C14_NewTokenVisible ==
  [][(/\ last.op = "generate" /\ last.p = "cli" /\ last.res = ErrNone
      /\ last'.p = "dash"
      /\ last'.op \in {"generate", "validate", "revoke", "rotate", "reload"})
       => ValidateCheck(ValidateMem(tokens'["dash"], file', last.tok.token),
                        last.tok.token, now') = ErrNone]_vars

\* C15: after every execution of load against a well-formed document (the
\* watcher's reload, the poll fallback's reload, Validate's miss path) the
\* token map of the process equals the document's set of records.
C15_ReloadOverwrites ==
  [][(/\ file.st = "ok"
      /\ \/ last'.op = "reload"
         \/ last'.op = "validate" /\ last'.arg \notin DOMAIN tokens[last'.p])
       => tokens'[last'.p] = file.toks]_vars

\* A process has reloaded: loading the document changes nothing in its map.
Reloaded(p) == LoadMem(tokens[p], file) = tokens[p]

\* C16: once both processes have reloaded from the document, every token
\* that was issued is held by both processes and by a freshly started one.
C16_NoTokenLost ==
  (\A p \in Procs : Reloaded(p))
    => \A t \in 1..(nextTok - 1) :
         /\ \A p \in Procs : t \in DOMAIN tokens[p]
         /\ t \in DOMAIN NewTokenStore(file)

\* The dashboard's user records differ from the users document.
UsersStale == users["dash"] # NewUserStore(usersFile)

\* C17: after a command has persisted a SetUserRole or a DeleteUser for a
\* user the running dashboard holds a record of, the dashboard's user
\* records eventually equal the users document again.
C17_UserChangesPropagate ==
  (/\ last.op \in {"user.set-role", "user.delete"} /\ last.res = ErrNone
   /\ last.target \in DOMAIN users["dash"]
   /\ UsersStale)
    ~> ~UsersStale

\* C18: after StopWatcher has been called, the change watcher and the
\* sweeper both terminate, wherever each of them was at that moment.
C18_BackgroundStops ==
  bg.closed ~> (bg.w.pc = "done" /\ bg.s.pc = "done")

\* C19: no call waits for a read-write lock that the call itself holds: a
\* save or persist helper reached from a locked mutator does not lock again.
C19_NoLockHeldTwice ==
  \A p \in Procs :
    /\ ~(lg[p].pc = "persist" /\ lg[p].mu = "W")
    /\ ~(lg[p].pc = "usave" /\ lg[p].umu = "W")

\* C20: a GenerateToken, Revoke or Rotate whose save fails returns the I/O
\* error and leaves the caller's in-memory token map as it was before the
\* call.
C20_FailedSaveAborts ==
  [][(last'.op \in {"generate", "revoke", "rotate"} /\ last'.res = ErrIO)
       => tokens'[last'.p] = tokens[last'.p]]_vars

\* C21: a store constructed over a malformed document is not usable: the
\* call that follows the construction does not rewrite the document.
C21_MalformedIsFatal ==
  [][(last.op = "restart" /\ file.st = "corrupt") => file' = file]_vars

\* C22: Authenticate fails uniformly: two failed calls, whatever their
\* cause (missing user, inactive user, wrong password), return the same
\* error.
C22_AuthenticateFailsUniformly ==
  [][(last.op = "authenticate" /\ last'.op = "authenticate"
        /\ last.res # ErrNone /\ last'.res # ErrNone)
       => last'.res = last.res]_vars

\* C23: every authorisation decision is audited: a decision of the command
\* line checks or of authMiddleware comes with an audit record carrying the
\* actor and the outcome.
C23_DecisionsAudited ==
  last.op \in {"http", "guarded", "user.create", "user.set-role", "user.delete",
               "token.create", "token.revoke", "token.rotate"}
    => /\ last.audit.action = "auth.check"
       /\ last.audit.actor = last.actor
       /\ last.audit.allowed =
            (IF last.op = "http" THEN last.res = StatusOK ELSE last.res = ErrNone)

\* C24: role domain: every user record, in the users document and in the
\* map of every process, has one of the roles viewer, operator, admin.
C24_RoleDomain ==
  /\ \A u \in DOMAIN NewUserStore(usersFile) : NewUserStore(usersFile)[u].role \in Roles
  /\ \A p \in Procs : \A u \in DOMAIN users[p] : users[p][u].role \in Roles

\* C25: authMiddleware answers 401 to a request whose bearer token fails
\* validation and 403 to one whose actor has a user record with a role below
\* the minimum, the handler running in neither case; a request with a valid
\* token of a user of sufficient role reaches the handler.
C25_StatusMapping ==
  \A c \in Creds, m \in Roles :
    LET d == AuthMiddleware(users["dash"], tokens["dash"], file, c[1], c[2], m)
        failed == c[1] # 0 /\ ValidateResult("dash", c[1]) # ErrNone
        owner == IF c[1] # 0 THEN ValidateTok("dash", c[1]).user ELSE ""
        actor == IF owner # "" THEN owner ELSE c[2]
        us == users["dash"]
    IN /\ failed => d.status = StatusUnauthorized
       /\ (~failed /\ actor \in DOMAIN us /\ ~AtLeast(us[actor].role, m))
            => d.status = StatusForbidden
       /\ (c[1] # 0 /\ ~failed /\ owner \in DOMAIN us /\ AtLeast(us[owner].role, m))
            => d.status = StatusOK
       /\ d.status \in {StatusUnauthorized, StatusForbidden} => d.why # "allowed"

C25_Witness ==
  /\ last.op = "http" /\ last.res = StatusForbidden /\ last.actor = "alice"
  /\ \E t \in DOMAIN tokens["dash"] :
       /\ ValidateResult("dash", t) = ErrNone
       /\ AuthMiddleware(users["dash"], tokens["dash"], file, t, "", "viewer").status
            = StatusOK
  /\ \E t \in TokIds :
       /\ ValidateResult("dash", t) # ErrNone
       /\ AuthMiddleware(users["dash"], tokens["dash"], file, t, "alice", "viewer").status
            = StatusUnauthorized

\* C26: AddUser of a username that is already stored returns the "already
\* exists" error and changes neither the map nor the users document.
C26_AddUserExisting ==
  [][(last'.op \in {"adduser", "lg.adduser"} /\ last'.target \in DOMAIN users[last'.p])
       => /\ last'.res = ErrUserExists
          /\ users' = users
          /\ usersFile' = usersFile]_vars

\* C27: Rotate returns NotFound for a token that is not in the store and
\* Revoked for a revoked one, and then leaves the token map and the document
\* as they were; the token a successful Rotate returns is stored, unrevoked,
\* and carries the user and the name of the old token.
C27_RotateErrorsAndCarryOver ==
  [][last'.op = "rotate"
       => LET p == last'.p
              old == last'.arg
          IN /\ old \notin DOMAIN tokens[p]
                  => (last'.res = ErrNotFound /\ tokens' = tokens /\ file' = file)
             /\ (old \in DOMAIN tokens[p] /\ tokens[p][old].revoked)
                  => (last'.res = ErrRevoked /\ tokens' = tokens /\ file' = file)
             /\ last'.res = ErrNone
                  => /\ old \in DOMAIN tokens[p] /\ ~tokens[p][old].revoked
                     /\ last'.tok.user = tokens[p][old].user
                     /\ last'.tok.name = tokens[p][old].name
                     /\ ~last'.tok.revoked
                     /\ last'.tok.token \notin DOMAIN tokens[p]
                     /\ tokens'[p][last'.tok.token] = last'.tok]_vars

C27_Witness ==
  /\ last.op = "rotate" /\ last.res = ErrRevoked
  /\ MemRevoked(tokens[last.p], last.arg)
  /\ \E t \in DOMAIN tokens[last.p] :
       t # last.arg /\ ~tokens[last.p][t].revoked
         /\ tokens[last.p][t].user = tokens[last.p][last.arg].user

\* C28: Rotate does not look at the expiry of the old token: for a stored,
\* unrevoked token whose expiresAt has passed, Validate fails with "token
\* expired" while Rotate succeeds and returns a new unrevoked token that
\* validates.
C28_RotateIgnoresExpiry ==
  [][(/\ last'.op = "rotate"
      /\ last'.arg \in DOMAIN tokens[last'.p]
      /\ ~tokens[last'.p][last'.arg].revoked
      /\ tokens[last'.p][last'.arg].expiresAt # NoExpiry
      /\ now > tokens[last'.p][last'.arg].expiresAt)
       => /\ ValidateResult(last'.p, last'.arg) = ErrExpired
          /\ last'.res = ErrNone
          /\ ~last'.tok.revoked
          /\ ValidateCheck(tokens'[last'.p], last'.tok.token, now') = ErrNone]_vars

C28_Witness ==
  /\ last.op = "rotate" /\ last.res = ErrNone
  /\ last.arg \in DOMAIN tokens[last.p]
  /\ tokens[last.p][last.arg].expiresAt # NoExpiry
  /\ now > tokens[last.p][last.arg].expiresAt
  /\ ValidateResult(last.p, last.tok.token) = ErrNone

\* The tokens of user u that are stored unrevoked and have not expired.
LiveTokens(p, u) ==
  {t \in DOMAIN tokens[p] :
     /\ tokens[p][t].user = u /\ ~tokens[p][t].revoked
     /\ (tokens[p][t].expiresAt = NoExpiry \/ ~(now > tokens[p][t].expiresAt))}

\* C29: access decisions consult neither the active flag nor, at validation
\* time, the existence of the token's owner: an inactive user fails
\* Authenticate, yet its live tokens validate and both layers allow it
\* according to its role; the live tokens of a user that has no record
\* validate, and access is denied only by the failed user lookup.
C29_ActiveFlagNotConsulted ==
  \A u \in CreateNames :
    LET us == users["dash"]
        ts == tokens["dash"]
    IN /\ (u \in DOMAIN us /\ ~us[u].active)
            => /\ \A pw \in AuthPasswords : AuthenticateErr(us, u, pw) # ErrNone
               /\ \A t \in LiveTokens("dash", u) : ValidateResult("dash", t) = ErrNone
               /\ \A m \in Roles :
                    /\ (AuthMiddleware(us, ts, file, 0, u, m).status = StatusOK)
                          <=> AtLeast(us[u].role, m)
                    /\ (RequireMinRole(CliUsers, CliTokens, file, 0, u, m) = ErrNone)
                          <=> AtLeast(us[u].role, m)
                    /\ \A t \in LiveTokens("dash", u) :
                         (AuthMiddleware(us, ts, file, t, "", m).status = StatusOK)
                           <=> AtLeast(us[u].role, m)
       /\ u \notin DOMAIN us
            => \A t \in LiveTokens("dash", u), m \in Roles :
                 /\ ValidateResult("dash", t) = ErrNone
                 /\ AuthMiddleware(us, ts, file, t, "", m) =
                      [status |-> StatusUnauthorized, actor |-> u, why |-> "actor not found"]
                 /\ RequireMinRole(CliUsers, CliTokens, file, t, "", m) = ErrActorLookup

C29_Witness ==
  /\ last.op = "http" /\ last.res = StatusOK /\ last.actor = "alice"
  /\ "alice" \in DOMAIN users["dash"] /\ ~users["dash"]["alice"].active
  /\ LiveTokens("dash", "alice") # {}
  /\ AuthenticateErr(users["dash"], "alice", "pw") = ErrInvalidUser

\* C30: isRunning is set only while a Start call is in progress, and a Stop
\* call waits in its send only while a Start call is there to receive it.
C30_RunningOnlyDuringStart ==
  /\ dboard.isRunning => dboard.start \in {"starting", "serving"}
  /\ dboard.stop = "sending" => dboard.start \in {"starting", "serving"}

====
